---------------------------- MODULE Spec2Model ----------------------------
(***************************************************************************)
(* Model of nanolab_processing_base: the header/metadata parser of         *)
(* extras/datasets/nanolab_dataframe.py, the dataset adapter of            *)
(* extras/datasets/nanolab_dataset.py and the batch separation of          *)
(* hooks_utils.py.                                                         *)
(*                                                                         *)
(* Python strings are sequences of one-character strings, so that strip,   *)
(* startswith, replace, split and the regular expression of                *)
(* determine_procedure are computed character by character.  A Python      *)
(* call that may raise is an operator returning a record with field exc:   *)
(* "" when the call returned, otherwise the name of the exception class.   *)
(***************************************************************************)
EXTENDS Integers, Sequences, FiniteSets, TLC

VARIABLES
    cached_procedures,  \* nanolab_dataframe._cached_procedures
    fetches,            \* outcomes of the load_catalog_item calls made so far
    op,                 \* the function the last step called ("" before any)
    arg,                \* the input of that call
    result,             \* what that call returned or raised
    experiments,        \* separate_nanolab_dataset: the input mapping, in order
    pc,                 \* separate_nanolab_dataset: position in the function
    idx,                \* separate_nanolab_dataset: entries consumed by the loop
    props_list,         \* separate_nanolab_dataset: props_list
    indexed_data,       \* separate_nanolab_dataset: indexed_data, in insertion order
    log,                \* logger.error records of separate_nanolab_dataset
    invoked,            \* keys whose producer has been called, in call order
    raised,             \* exception that left separate_nanolab_dataset ("" if none)
    is_processing,      \* DynamicDatasetHook.is_processing
    projects,           \* DynamicDatasetHook.projects
    stack,              \* the running after_catalog_created calls, innermost last
    events,             \* what the after_catalog_created calls did, in order
    invocations         \* number of after_catalog_created calls started so far

vars == <<cached_procedures, fetches, op, arg, result, experiments, pc, idx,
          props_list, indexed_data, log, invoked, raised,
          is_processing, projects, stack, events, invocations>>

-----------------------------------------------------------------------------
(* Bounds of the model *)

MaxTail == 5
MaxLines == 3
MaxLine1 == 5
MaxValue == 4
MaxExperiments == 3
MaxFetches == 2
MaxHeader == 2
MaxPath == 5
MaxInvocations == 2

-----------------------------------------------------------------------------
(* Python str primitives *)

Tab == "\t"

\* the characters str.strip() removes that can occur inside one line
Whitespace == {" ", Tab}

Min(S) == CHOOSE x \in S : \A y \in S : x <= y
Max(S) == CHOOSE x \in S : \A y \in S : x >= y

\* The element of a one-element set.  Only({F(x) : x \in {e}}) is F(e),
\* with e evaluated once however often F uses it.
Only(S) == CHOOSE x \in S : TRUE

\* all sequences over S of length 0..n
SeqsUpTo(S, n) == UNION {[1..k -> S] : k \in 0..n}

\* str.strip()
Strip(s) ==
    LET keep == {i \in 1..Len(s) : s[i] \notin Whitespace}
    IN  IF keep = {} THEN <<>> ELSE SubSeq(s, Min(keep), Max(keep))

\* str.startswith(p)
StartsWith(s, p) == Len(s) >= Len(p) /\ SubSeq(s, 1, Len(p)) = p

\* str.endswith(p)
EndsWith(s, p) == Len(s) >= Len(p) /\ SubSeq(s, Len(s) - Len(p) + 1, Len(s)) = p

\* str.find(sub) + 1: the first position where sub occurs in s, 0 if none
Find(s, sub) ==
    LET at == {i \in 1..(Len(s) - Len(sub) + 1) : SubSeq(s, i, i + Len(sub) - 1) = sub}
    IN  IF at = {} THEN 0 ELSE Min(at)

\* str.replace(old, new): every non-overlapping occurrence, left to right
Replace(s, old, new) ==
    LET from[i \in 1..(Len(s) + 1)] ==
            IF Len(s) - i + 1 < Len(old) THEN SubSeq(s, i, Len(s))
            ELSE IF SubSeq(s, i, i + Len(old) - 1) = old THEN new \o from[i + Len(old)]
            ELSE <<s[i]>> \o from[i + 1]
    IN  from[1]

\* str.split(sep): the list of all parts
Split(s, sep) ==
    LET from[i \in 1..(Len(s) + 1)] ==
            LET at == {j \in i..(Len(s) - Len(sep) + 1) : SubSeq(s, j, j + Len(sep) - 1) = sep}
            IN  IF at = {} THEN <<SubSeq(s, i, Len(s))>>
                ELSE <<SubSeq(s, i, Min(at) - 1)>> \o from[Min(at) + Len(sep)]
    IN  from[1]

\* str.split(sep, 1): at most one split, at the first occurrence of sep
Split1(s, sep) ==
    LET i == Find(s, sep)
    IN  IF i = 0 THEN <<s>>
        ELSE <<SubSeq(s, 1, i - 1), SubSeq(s, i + Len(sep), Len(s))>>

\* a list's last element, l[-1]
Last(l) == l[Len(l)]

-----------------------------------------------------------------------------
(* dict: a sequence of <<key, value>> pairs with distinct keys, in          *)
(* insertion order                                                          *)

DictKeys(d) == {d[i][1] : i \in 1..Len(d)}

DictGet(d, k) == d[CHOOSE i \in 1..Len(d) : d[i][1] = k][2]

\* d[k] = v: an existing key keeps its position and takes the new value
DictSet(d, k, v) ==
    IF k \in DictKeys(d)
    THEN [i \in 1..Len(d) |-> IF d[i][1] = k THEN <<k, v>> ELSE d[i]]
    ELSE Append(d, <<k, v>>)

\* dict built from a list of pairs, as a dict comprehension builds it
DictFromPairs(pairs) ==
    LET upTo[n \in 0..Len(pairs)] ==
            IF n = 0 THEN <<>>
            ELSE Only({DictSet(d, pairs[n][1], pairs[n][2]) : d \in {upTo[n - 1]}})
    IN  upTo[Len(pairs)]

-----------------------------------------------------------------------------
(* read_comment_lines and make_dict_from_parsed_data *)

CommentMarker == <<"#">>
ExtendedMarker == <<"#", Tab>>
KeyValueSep == <<":", " ">>

\* make_dict_from_parsed_data: a pair of split(": ", 1) that is not two
\* long fails the unpacking; the ValueError is re-raised with a message
make_dict_from_parsed_data(list_of_lines) ==
    LET parts == [i \in 1..Len(list_of_lines) |-> Split1(list_of_lines[i], KeyValueSep)]
    IN  IF \E i \in 1..Len(parts) : Len(parts[i]) # 2
        THEN [exc |-> "ValueError", value |-> <<>>]
        ELSE [exc |-> "", value |-> DictFromPairs(parts)]

\* the last statement of the loop body: strip the line and remove the marker
StripMarker(line) == Replace(Strip(line), ExtendedMarker, <<>>)

\* the test of the loop body's second if
IsExtendedLine(line) == StartsWith(Strip(line), ExtendedMarker)

\* comment_lines after the loop over the file
CommentLines(lines) ==
    LET kept == SelectSeq(lines, IsExtendedLine)
    IN  [i \in 1..Len(kept) |-> StripMarker(kept[i])]

\* current_line after the loop over the file
CurrentLine(lines) ==
    Cardinality({i \in 1..Len(lines) : StartsWith(Strip(lines[i]), CommentMarker)})

\* the return statement of read_comment_lines
HeaderResult(comment_lines, current_line) ==
    IF comment_lines # <<>>
    THEN LET d == make_dict_from_parsed_data(comment_lines)
         IN  [exc |-> d.exc, header |-> d.value,
              offset |-> IF d.exc = "" THEN current_line ELSE 0]
    ELSE [exc |-> "", header |-> <<>>, offset |-> 0]

\* read_comment_lines on a file: exists is FALSE when open() finds no file
read_comment_lines(file) ==
    IF ~file.exists
    THEN [exc |-> "FileNotFoundError", header |-> <<>>, offset |-> 0]
    ELSE HeaderResult(CommentLines(file.lines), CurrentLine(file.lines))

-----------------------------------------------------------------------------
(* determine_procedure *)

CsvSuffix == <<".", "c", "s", "v">>

\* RegexSearch with a greedy group, r"<(.*)>": the text up to the last ">"
RegexSearchGreedy(line) ==
    LET opens == {i \in 1..Len(line) :
                     line[i] = "<" /\ \E j \in (i + 1)..Len(line) : line[j] = ">"}
    IN  IF opens = {} THEN [match |-> FALSE, group1 |-> <<>>]
        ELSE LET i == Min(opens)
                 j == Max({k \in (i + 1)..Len(line) : line[k] = ">"})
             IN  [match |-> TRUE, group1 |-> SubSeq(line, i + 1, j - 1)]

\* re.search(r"<(.*?)>", line): the leftmost "<" that some ">" follows, and
\* the text up to the first ">" after it (group 1)
RegexSearch(line) ==
    LET opens == {i \in 1..Len(line) :
                     line[i] = "<" /\ \E j \in (i + 1)..Len(line) : line[j] = ">"}
    IN  IF opens = {} THEN [match |-> FALSE, group1 |-> <<>>]
        ELSE LET i == Min(opens)
                 j == Min({k \in (i + 1)..Len(line) : line[k] = ">"})
             IN  [match |-> TRUE, group1 |-> SubSeq(line, i + 1, j - 1)]

\* file.readline().strip()
FirstLine(file) == IF file.lines = <<>> THEN <<>> ELSE Strip(file.lines[1])

determine_procedure(path, file) ==
    IF ~EndsWith(path, CsvSuffix)
    THEN [exc |-> "ValueError", value |-> <<>>, warned |-> FALSE, opened |-> FALSE]
    ELSE IF ~file.exists
    THEN [exc |-> "FileNotFoundError", value |-> <<>>, warned |-> FALSE, opened |-> TRUE]
    ELSE LET m == RegexSearch(FirstLine(file))
         IN  IF m.match
             THEN [exc |-> "", value |-> Last(Split(m.group1, <<".">>)),
                   warned |-> FALSE, opened |-> TRUE]
             ELSE [exc |-> "", value |-> <<>>, warned |-> TRUE, opened |-> TRUE]

-----------------------------------------------------------------------------
(* parse_metadata *)

Digits == {"0", "1", "2", "3", "4", "5", "6", "7", "8", "9"}

DigitValue(c) ==
    CASE c = "0" -> 0 [] c = "1" -> 1 [] c = "2" -> 2 [] c = "3" -> 3 [] c = "4" -> 4
      [] c = "5" -> 5 [] c = "6" -> 6 [] c = "7" -> 7 [] c = "8" -> 8 [] c = "9" -> 9

\* the number a string of digits denotes
DigitsValue(ds) ==
    LET upTo[n \in 0..Len(ds)] ==
            IF n = 0 THEN 0 ELSE 10 * upTo[n - 1] + DigitValue(ds[n])
    IN  upTo[Len(ds)]

Pow10(n) ==
    LET p[k \in 0..n] == IF k = 0 THEN 1 ELSE 10 * p[k - 1]
    IN  p[n]

\* a fraction's digits without its trailing zeros
TrimZeros(ds) ==
    LET nonzero == {i \in 1..Len(ds) : ds[i] # "0"}
    IN  IF nonzero = {} THEN <<>> ELSE SubSeq(ds, 1, Max(nonzero))

\* float(s) for unsigned decimal literals: surrounding whitespace is ignored,
\* then digits with at most one "." and at least one digit; the value is
\* mant / 10^scale.  Anything else is a ValueError.
PyFloat(s) ==
    LET t == Strip(s)
        dots == {i \in 1..Len(t) : t[i] = "."}
        wellFormed == /\ t # <<>>
                      /\ \A i \in 1..Len(t) : t[i] \in Digits \cup {"."}
                      /\ Cardinality(dots) <= 1
                      /\ \E i \in 1..Len(t) : t[i] \in Digits
    IN  IF ~wellFormed THEN [exc |-> "ValueError", value |-> <<>>]
        ELSE LET d == IF dots = {} THEN Len(t) + 1 ELSE Min(dots)
                 whole == SubSeq(t, 1, d - 1)
                 frac == TrimZeros(SubSeq(t, d + 1, Len(t)))
             IN  [exc |-> "",
                  value |-> [type |-> "float",
                             mant |-> DigitsValue(whole) * Pow10(Len(frac)) + DigitsValue(frac),
                             scale |-> Len(frac)]]

\* int(s) for unsigned literals: surrounding whitespace is ignored, then digits
PyInt(s) ==
    LET t == Strip(s)
    IN  IF t = <<>> \/ \E i \in 1..Len(t) : t[i] \notin Digits
        THEN [exc |-> "ValueError", value |-> <<>>]
        ELSE [exc |-> "", value |-> [type |-> "int", n |-> DigitsValue(t)]]

TrueLiteral == <<"T", "r", "u", "e">>

string_to_bool(string_bool) == string_bool = TrueLiteral

\* unix_time_to_datetime: the float's ValueError is re-raised as a ValueError
unix_time_to_datetime(unix_time_str) ==
    LET f == PyFloat(unix_time_str)
    IN  IF f.exc # "" THEN [exc |-> "ValueError", value |-> <<>>]
        ELSE [exc |-> "", value |-> [type |-> "datetime", seconds |-> f.value]]

\* the argument of float() in the "float" branch: value.split(" ")[0]
FloatToken(value) == Split(value, <<" ">>)[1]

parse_metadata(key, value, how_to_process) ==
    CASE how_to_process = "float" -> PyFloat(FloatToken(value))
      [] how_to_process = "int" -> PyInt(value)
      [] how_to_process = "bool" ->
            [exc |-> "", value |-> [type |-> "bool", b |-> string_to_bool(value)]]
      [] how_to_process = "str" -> [exc |-> "", value |-> [type |-> "str", s |-> value]]
      [] how_to_process = "datetime" -> unix_time_to_datetime(value)
      [] how_to_process = "float_no_unit" -> PyFloat(value)
      [] OTHER -> [exc |-> "ValueError", value |-> <<>>]

-----------------------------------------------------------------------------
(* get_data_key *)

\* os.path.join(a, b) for a b that does not start with "/"
PathJoin(a, b) == IF a = <<>> \/ Last(a) = "/" THEN a \o b ELSE a \o <<"/">> \o b

get_data_key(path) ==
    LET splitted_path == Split(path, <<"/">>)
        file_name == Split(Last(splitted_path), <<".">>)[1]
    IN  IF Len(splitted_path) < 2
        THEN [exc |-> "IndexError", value |-> <<>>]
        ELSE [exc |-> "", value |-> PathJoin(splitted_path[Len(splitted_path) - 1], file_name)]

-----------------------------------------------------------------------------
(* The procedures registry: get_procedures, load_catalog_item, get_keys *)

\* Python's None, and a dict held where None may be held
None == [none |-> TRUE]
Some(d) == [none |-> FALSE, dict |-> d]

\* the value catalog.load("params:procedures") gives when it succeeds: two
\* procedures, each with its Parameters, Metadata and Data mappings
Procedures ==
    << << <<"P">>, [Parameters |-> << << <<"a">>, "float" >>, << <<"b">>, "int" >> >>,
                    Metadata   |-> << << <<"c">>, "str" >>, << <<"u">>, "unit" >> >>,
                    Data       |-> << << <<"V">>, "float64" >> >>] >>,
       << <<"Q">>, [Parameters |-> << << <<"a">>, "float_no_unit" >> >>,
                    Metadata   |-> << << <<"t">>, "datetime" >> >>,
                    Data       |-> << << <<"V">>, "float64" >> >>] >> >>

\* what one call of load_catalog_item can do: return the registry, return
\* None (the catalog entry holds no value), or raise (the session, the
\* context or the catalog lookup fails; "LoadError" stands for its class)
LoadOutcomes == {"ok", "none", "raise"}

\* load_catalog_item("params:procedures") with the given outcome
load_catalog_item(outcome) ==
    CASE outcome = "ok" -> [exc |-> "", value |-> Some(Procedures)]
      [] outcome = "none" -> [exc |-> "", value |-> None]
      [] OTHER -> [exc |-> "LoadError", value |-> None]

\* The process state the registry functions act on: cache is
\* _cached_procedures, pending the outcomes of the load_catalog_item calls
\* still to come, fetched the outcomes of the calls made.
World(cache, pending) == [cache |-> cache, pending |-> pending, fetched |-> <<>>]

\* get_procedures without the "is None" test: every access fetches
get_procedures_refetch(w) ==
    LET r == load_catalog_item(Head(w.pending))
        w2 == [w EXCEPT !.pending = Tail(@), !.fetched = Append(@, Head(w.pending))]
    IN  IF r.exc # "" THEN [exc |-> r.exc, value |-> None, w |-> w2]
        ELSE [exc |-> "", value |-> r.value, w |-> [w2 EXCEPT !.cache = r.value]]

\* get_procedures: fetch only while the cache is None; a raise leaves the
\* cache as it was
get_procedures(w) ==
    IF w.cache.none
    THEN LET r == load_catalog_item(Head(w.pending))
             w2 == [w EXCEPT !.pending = Tail(@),
                             !.fetched = Append(@, Head(w.pending))]
         IN  IF r.exc # "" THEN [exc |-> r.exc, value |-> None, w |-> w2]
             ELSE [exc |-> "", value |-> r.value, w |-> [w2 EXCEPT !.cache = r.value]]
    ELSE [exc |-> "", value |-> w.cache, w |-> w]

\* get_keys without the membership test: an unknown procedure has no keys
get_keys_lenient(procedure, w) ==
    LET g == get_procedures(w)
    IN  IF g.exc # "" THEN [exc |-> g.exc, value |-> <<>>, w |-> g.w]
        ELSE IF g.value.none THEN [exc |-> "TypeError", value |-> <<>>, w |-> g.w]
        ELSE IF procedure \notin DictKeys(g.value.dict)
        THEN [exc |-> "", value |-> <<>>, w |-> g.w]
        ELSE LET p == DictGet(g.value.dict, procedure)
                 parameters == [i \in 1..Len(p.Parameters) |-> p.Parameters[i][1]]
                 metadata == [i \in 1..Len(p.Metadata) |-> p.Metadata[i][1]]
             IN  [exc |-> "", value |-> parameters \o metadata, w |-> g.w]

\* get_keys: "procedure not in procedures" on None is a TypeError
get_keys(procedure, w) ==
    LET g == get_procedures(w)
    IN  IF g.exc # "" THEN [exc |-> g.exc, value |-> <<>>, w |-> g.w]
        ELSE IF g.value.none THEN [exc |-> "TypeError", value |-> <<>>, w |-> g.w]
        ELSE IF procedure \notin DictKeys(g.value.dict)
        THEN [exc |-> "KeyError", value |-> <<>>, w |-> g.w]
        ELSE LET p == DictGet(g.value.dict, procedure)
                 parameters == [i \in 1..Len(p.Parameters) |-> p.Parameters[i][1]]
                 metadata == [i \in 1..Len(p.Metadata) |-> p.Metadata[i][1]]
             IN  [exc |-> "", value |-> parameters \o metadata, w |-> g.w]

\* the list's elements, for "key in keys"
Elems(l) == {l[i] : i \in 1..Len(l)}

\* a | b on dicts: b's value wins, a's position stays
DictMerge(a, b) == DictFromPairs(a \o b)

-----------------------------------------------------------------------------
(* make_props_data *)

DataKeyField == <<"d", "a", "t", "a", "_", "k", "e", "y">>
ProcedureTypeField == <<"P", "r", "o", "c", "e", "d", "u", "r", "e", " ", "t", "y", "p", "e">>

\* pd.read_csv(path, header=header, dtype=dtype_mapping), as far as
\* make_props_data depends on it: line number header (from 0) holds the
\* column names and the lines after it the rows; a file that has no such
\* line, or a row with a cell that is no number, is a ValueError
read_csv(file, header, dtype) ==
    LET rows == SubSeq(file.lines, header + 2, Len(file.lines))
    IN  IF Len(file.lines) < header + 1
           \/ \E i \in 1..Len(rows) : \E j \in 1..Len(rows[i]) :
                 rows[i][j] \notin Digits \cup {",", "."}
        THEN [exc |-> "ValueError", value |-> <<>>]
        ELSE [exc |-> "", value |-> [columns |-> file.lines[header + 1], rows |-> rows]]

\* what make_props_data reports when it raises in the given stage
PropsFailure(exc, stage, key, procedure, warned, coerced, w) ==
    [exc |-> exc, stage |-> stage, key |-> key, procedure |-> procedure,
     warned |-> warned, coerced |-> coerced, body_read |-> FALSE,
     props |-> <<>>, data |-> <<>>, w |-> w]

\* one pass of the for loop of make_props_data, for the header entry pair:
\* loop is the state the earlier passes left (exc is set once one raised)
PropsLoopBody(loop, pair, keys, procedure_dict) ==
    IF loop.exc # "" THEN loop
    ELSE IF pair[1] \in Elems(keys)
    THEN Only({IF v.exc # ""
               THEN [loop EXCEPT !.exc = v.exc, !.key = pair[1], !.coerced = @ + 1]
               ELSE [loop EXCEPT !.props = DictSet(@, pair[1], v.value), !.coerced = @ + 1] :
               v \in {parse_metadata(pair[1], pair[2], DictGet(procedure_dict, pair[1]))}})
    ELSE [loop EXCEPT !.exc = "KeyError", !.key = pair[1]]

\* the for loop of make_props_data over the header's entries in order:
\* props_dict grows until a key is unknown or a value fails
PropsLoop(header, keys, procedure_dict) ==
    LET upTo[n \in 0..Len(header)] ==
            IF n = 0 THEN [exc |-> "", key |-> <<>>, props |-> <<>>, coerced |-> 0]
            ELSE Only({PropsLoopBody(loop, header[n], keys, procedure_dict) :
                          loop \in {upTo[n - 1]}})
    IN  upTo[Len(header)]

\* make_props_data from the line that sets props_dict["data_key"] on: h, d,
\* g, k and loop are what read_comment_lines, determine_procedure,
\* get_procedures, get_keys and the for loop gave
PropsAfterLoop(path, file, h, d, g, k, loop) ==
    LET procedure == d.value
        schema == DictGet(g.value.dict, procedure)
        dk == get_data_key(path)
        props == DictSet(DictSet(loop.props, DataKeyField, [type |-> "str", s |-> dk.value]),
                         ProcedureTypeField, [type |-> "str", s |-> procedure])
    IN  IF loop.exc = "KeyError"
        THEN PropsFailure("KeyError", "validate", loop.key, procedure, d.warned,
                          loop.coerced, k.w)
        ELSE IF loop.exc # ""
        THEN PropsFailure(loop.exc, "parse_metadata", loop.key, procedure, d.warned,
                          loop.coerced, k.w)
        ELSE IF dk.exc # ""
        THEN PropsFailure(dk.exc, "get_data_key", <<>>, procedure, d.warned,
                          loop.coerced, k.w)
        ELSE Only({IF data.exc # ""
                   THEN [PropsFailure(data.exc, "read_csv", <<>>, procedure, d.warned,
                                      loop.coerced, k.w) EXCEPT !.body_read = TRUE]
                   ELSE [exc |-> "", stage |-> "return", key |-> <<>>,
                         procedure |-> procedure, warned |-> d.warned,
                         coerced |-> loop.coerced, body_read |-> TRUE,
                         props |-> props, data |-> data.value, w |-> k.w] :
                   data \in {read_csv(file, h.offset, schema.Data)}})

\* make_props_data from "keys = get_keys(procedure)" on
PropsAfterProcedures(path, file, h, d, g) ==
    Only({IF k.exc # ""
          THEN PropsFailure(k.exc, "get_keys", <<>>, d.value, d.warned, 0, k.w)
          ELSE IF g.value.none
          THEN PropsFailure("TypeError", "procedure_dict", <<>>, d.value, d.warned, 0, k.w)
          ELSE Only({PropsAfterLoop(path, file, h, d, g, k, loop) :
                        loop \in {PropsLoop(h.header, k.value,
                                            DictMerge(DictGet(g.value.dict, d.value).Parameters,
                                                      DictGet(g.value.dict, d.value).Metadata))}}) :
          k \in {get_keys(d.value, g.w)}})

\* make_props_data from "procedures = get_procedures()" on
PropsAfterHeader(path, file, w, h, d) ==
    IF h.exc # ""
    THEN PropsFailure(h.exc, "read_comment_lines", <<>>, <<>>, FALSE, 0, w)
    ELSE IF d.exc # ""
    THEN PropsFailure(d.exc, "determine_procedure", <<>>, <<>>, FALSE, 0, w)
    ELSE Only({IF g.exc # ""
               THEN PropsFailure(g.exc, "get_procedures", <<>>, d.value, d.warned, 0, g.w)
               ELSE PropsAfterProcedures(path, file, h, d, g) :
               g \in {get_procedures(w)}})

make_props_data(path, file, w) ==
    Only({PropsAfterHeader(path, file, w, h, d) :
             h \in {read_comment_lines(file)}, d \in {determine_procedure(path, file)}})

-----------------------------------------------------------------------------
(* NanoLabDataSet._load *)

\* get_procedures() first, then make_props_data(self.filepath)
NanoLabDataSet_load(path, file, w) ==
    Only({IF g.exc # ""
          THEN PropsFailure(g.exc, "_load", <<>>, <<>>, FALSE, 0, g.w)
          ELSE make_props_data(path, file, g.w) :
          g \in {get_procedures(w)}})

-----------------------------------------------------------------------------
(* Inputs: paths, lines and files *)

PathCsv == <<"d", "/", "f", ".", "c", "s", "v">>
PathBare == <<"f", ".", "c", "s", "v">>
PathTxt == <<"d", "/", "f", ".", "t", "x", "t">>
SamplePaths == {PathCsv, PathBare, PathTxt}

LineMarkerP == <<"#", "<", "x", ".", "P", ">">>
LineMarkerQ == <<"#", "<", "Q", ">">>
LineMarkerZ == <<"#", "<", "x", ".", "Z", ">">>
LineNoMarker == <<"#", "x">>
LineFloat == <<"#", Tab, "a", ":", " ", "1", ".", "5", " ", "C">>
LineFloatBad == <<"#", Tab, "a", ":", " ", "x">>
LineStr == <<" ", "#", Tab, "c", ":", " ", "k">>
LineUnknownKey == <<"#", Tab, "z", ":", " ", "1">>
LineNoSep == <<"#", Tab, "q">>
LineColumns == <<"V">>
LineRow == <<"1">>

MissingFile == [exists |-> FALSE, lines |-> <<>>]
FileOf(lines) == [exists |-> TRUE, lines |-> lines]

\* the states every specification leaves the parts it does not use in
RegistryIdle == cached_procedures = None /\ fetches = <<>>
CallIdle == op = "" /\ arg = <<>> /\ result = <<>>
SeparateIdle ==
    /\ experiments = <<>> /\ pc = "idle" /\ idx = 0 /\ props_list = <<>>
    /\ indexed_data = <<>> /\ log = <<>> /\ invoked = <<>> /\ raised = ""

\* DynamicDatasetHook.__init__, before any after_catalog_created
HookIdle ==
    /\ is_processing = FALSE /\ projects = None
    /\ stack = <<>> /\ events = <<>> /\ invocations = 0

registryVars == <<cached_procedures, fetches>>
hookVars == <<is_processing, projects, stack, events, invocations>>
separateVars == <<experiments, pc, idx, props_list, indexed_data, log, invoked, raised>>

-----------------------------------------------------------------------------
(* SpecHeader: read_comment_lines applied to one file *)

HeaderAlphabet == {"k", ":", " ", "#", Tab}
HeaderPrefixes == {<<>>, CommentMarker, ExtendedMarker}
HeaderSampleLines == {LineMarkerP, LineFloat, LineStr, LineNoSep, LineNoMarker, LineColumns}

\* one-line files spelled character by character, and files of whole lines
HeaderFiles ==
    {FileOf(<<p \o t>>) : p \in HeaderPrefixes, t \in SeqsUpTo(HeaderAlphabet, MaxTail)}
    \cup {FileOf(ls) : ls \in SeqsUpTo(HeaderSampleLines, MaxLines)}
    \cup {MissingFile}

InitHeader ==
    /\ RegistryIdle /\ SeparateIdle /\ HookIdle
    /\ op = "" /\ result = <<>>
    /\ arg \in HeaderFiles

ReadCommentLines ==
    /\ op = ""
    /\ op' = "read_comment_lines"
    /\ result' = read_comment_lines(arg)
    /\ UNCHANGED <<hookVars, arg, registryVars, separateVars>>

NextHeader == ReadCommentLines

SpecHeader == InitHeader /\ [][NextHeader]_vars

-----------------------------------------------------------------------------
(* SpecProcedure: determine_procedure applied to one path and file *)

Line1Alphabet == {"<", ">", ".", "a", " "}

ProcedureFiles ==
    {FileOf(<<l>> \o rest) : l \in SeqsUpTo(Line1Alphabet, MaxLine1),
                             rest \in {<<>>, <<LineMarkerQ>>}}
    \cup {FileOf(<<>>), MissingFile}

InitProcedure ==
    /\ RegistryIdle /\ SeparateIdle /\ HookIdle
    /\ op = "" /\ result = <<>>
    /\ arg \in [path : SamplePaths, file : ProcedureFiles]

DetermineProcedure ==
    /\ op = ""
    /\ op' = "determine_procedure"
    /\ result' = determine_procedure(arg.path, arg.file)
    /\ UNCHANGED <<hookVars, arg, registryVars, separateVars>>

NextProcedure == DetermineProcedure

SpecProcedure == InitProcedure /\ [][NextProcedure]_vars

-----------------------------------------------------------------------------
(* SpecCoerce: parse_metadata applied to one raw value and type tag *)

ValueAlphabet == {"3", ".", " ", Tab, "C"}
TypeTags == {"float", "int", "bool", "str", "datetime", "float_no_unit", "unit"}

InitCoerce ==
    /\ RegistryIdle /\ SeparateIdle /\ HookIdle
    /\ op = "" /\ result = <<>>
    /\ arg \in [key : {<<"a">>},
                value : SeqsUpTo(ValueAlphabet, MaxValue) \cup {TrueLiteral},
                how : TypeTags]

ParseMetadata ==
    /\ op = ""
    /\ op' = "parse_metadata"
    /\ result' = parse_metadata(arg.key, arg.value, arg.how)
    /\ UNCHANGED <<hookVars, arg, registryVars, separateVars>>

NextCoerce == ParseMetadata

SpecCoerce == InitCoerce /\ [][NextCoerce]_vars

-----------------------------------------------------------------------------
(* SpecParser: get_procedures, get_keys and make_props_data called in any  *)
(* order, any number of times, in one process, on one path and file        *)

ParserFirstLines == {LineMarkerP, LineMarkerZ, LineNoMarker}
ParserHeaderLines == {LineFloat, LineFloatBad, LineUnknownKey, LineNoSep}
ParserBodies == {<<LineColumns, LineRow>>}

ParserFiles ==
    {FileOf(<<l>> \o h \o b) : l \in ParserFirstLines,
                               h \in SeqsUpTo(ParserHeaderLines, MaxHeader),
                               b \in ParserBodies}
    \cup {MissingFile}

ProcedureNames == {<<"P">>, <<"Z">>, <<>>}

InitParser ==
    /\ RegistryIdle /\ SeparateIdle /\ HookIdle
    /\ op = "" /\ result = <<>>
    /\ arg \in [path : SamplePaths, file : ParserFiles]

\* the registry part of a call's effect: the cache it leaves and the
\* load_catalog_item calls it made, kept within MaxFetches
RegistryEffect(w) ==
    /\ Len(fetches) + Len(w.fetched) <= MaxFetches
    /\ cached_procedures' = w.cache
    /\ fetches' = fetches \o w.fetched

\* the outcomes the next n load_catalog_item calls may have; with the cache
\* set no call is made, and one choice stands for all
Pendings(n) ==
    IF cached_procedures.none THEN [1..n -> LoadOutcomes] ELSE {[i \in 1..n |-> "ok"]}

GetProcedures ==
    \E pending \in Pendings(1) :
        \E r \in {get_procedures(World(cached_procedures, pending))} :
            /\ op' = "get_procedures"
            /\ result' = [exc |-> r.exc, value |-> r.value]
            /\ RegistryEffect(r.w)
            /\ UNCHANGED <<hookVars, arg, separateVars>>

GetKeys ==
    \E procedure \in ProcedureNames, pending \in Pendings(1) :
        \E r \in {get_keys(procedure, World(cached_procedures, pending))} :
            /\ op' = "get_keys"
            /\ result' = [exc |-> r.exc, value |-> r.value, procedure |-> procedure]
            /\ RegistryEffect(r.w)
            /\ UNCHANGED <<hookVars, arg, separateVars>>

MakePropsData ==
    \E pending \in Pendings(2) :
        \E r \in {make_props_data(arg.path, arg.file, World(cached_procedures, pending))} :
            /\ op' = "make_props_data"
            /\ result' = [f \in DOMAIN r \ {"w"} |-> r[f]]
            /\ RegistryEffect(r.w)
            /\ UNCHANGED <<hookVars, arg, separateVars>>

NextParser == GetProcedures \/ GetKeys \/ MakePropsData

SpecParser == InitParser /\ [][NextParser]_vars

-----------------------------------------------------------------------------
(* SpecSeparate: separate_nanolab_dataset over a mapping of producers *)

\* exception classes that derive from BaseException but not from Exception
NonExceptionClasses == {"KeyboardInterrupt", "SystemExit", "GeneratorExit"}

\* "except (KeyError, ValueError)" in place of "except Exception"
CaughtNarrow(exc) == exc \in {"KeyError", "ValueError"}

\* whether "except Exception" catches an exception of class exc
Caught(exc) == exc \notin NonExceptionClasses

GoodFile == FileOf(<<LineMarkerP, LineFloat, LineColumns, LineRow>>)
UnknownKeyFile == FileOf(<<LineMarkerP, LineUnknownKey, LineColumns, LineRow>>)

\* the producers of a mapping: partition loaders (NanoLabDataSet._load on a
\* file) and plain callables that return a pair or are interrupted
DatasetProducer(path, file) == [kind |-> "dataset", path |-> path, file |-> file]
StubProducer(outcome) == [kind |-> "stub", outcome |-> outcome]
Producers ==
    {DatasetProducer(PathCsv, GoodFile), DatasetProducer(PathCsv, UnknownKeyFile),
     StubProducer("pair"), StubProducer("KeyboardInterrupt")}

StubProps == << << <<"s">>, [type |-> "str", s |-> <<"s">>] >> >>
StubData == [columns |-> <<"S">>, rows |-> <<>>]

\* experiment_callable(): what the producer returns or raises
CallProducer(producer, w) ==
    IF producer.kind = "dataset"
    THEN Only({[exc |-> r.exc, props |-> r.props, data |-> r.data, w |-> r.w] :
                  r \in {NanoLabDataSet_load(producer.path, producer.file, w)}})
    ELSE IF producer.outcome = "pair"
    THEN [exc |-> "", props |-> StubProps, data |-> StubData, w |-> w]
    ELSE [exc |-> producer.outcome, props |-> <<>>, data |-> <<>>, w |-> w]

\* the keys of a mapping of n entries in insertion order: ascending or not
KeyOrders(n) == {[i \in 1..n |-> i], [i \in 1..n |-> n + 1 - i]}

Mappings ==
    UNION {{[i \in 1..n |-> [key |-> ks[i], producer |-> ps[i]]] :
               ks \in KeyOrders(n), ps \in [1..n -> Producers]} : n \in 0..MaxExperiments}

InitSeparate ==
    /\ RegistryIdle /\ CallIdle /\ HookIdle
    /\ experiments \in Mappings
    /\ pc = "loop" /\ idx = 0
    /\ props_list = <<>> /\ indexed_data = <<>>
    /\ log = <<>> /\ invoked = <<>> /\ raised = ""

\* the loop body with the new entry put first: props_list.insert(0, prop)
SeparateBodyPrepend(st, key, r) ==
    IF r.exc = ""
    THEN [st EXCEPT !.props_list = <<r.props>> \o @,
                    !.indexed_data = DictSet(@, key, r.data)]
    ELSE IF Caught(r.exc)
    THEN [st EXCEPT !.log = Append(@, [key |-> key, exc |-> r.exc])]
    ELSE [st EXCEPT !.raised = r.exc]

\* the loop body with a handler that logs the error and raises it again
SeparateBodyReraise(st, key, r) ==
    IF r.exc = ""
    THEN [st EXCEPT !.props_list = Append(@, r.props),
                    !.indexed_data = DictSet(@, key, r.data)]
    ELSE IF Caught(r.exc)
    THEN [st EXCEPT !.log = Append(@, [key |-> key, exc |-> r.exc]), !.raised = r.exc]
    ELSE [st EXCEPT !.raised = r.exc]

\* the body of the for loop for one entry: the try block and its handler;
\* an exception the handler does not catch leaves the function
SeparateBody(st, key, r) ==
    IF r.exc = ""
    THEN [st EXCEPT !.props_list = Append(@, r.props),
                    !.indexed_data = DictSet(@, key, r.data)]
    ELSE IF Caught(r.exc)
    THEN [st EXCEPT !.log = Append(@, [key |-> key, exc |-> r.exc])]
    ELSE [st EXCEPT !.raised = r.exc]

\* one iteration of the loop: the next entry's producer is called
SeparateIteration ==
    /\ pc = "loop" /\ idx < Len(experiments)
    /\ \E pending \in Pendings(3) :
        \E r \in {CallProducer(experiments[idx + 1].producer,
                               World(cached_procedures, pending))} :
        \E st \in {SeparateBody([props_list |-> props_list, indexed_data |-> indexed_data,
                                 log |-> log, raised |-> raised],
                                experiments[idx + 1].key, r)} :
            /\ invoked' = Append(invoked, [key |-> experiments[idx + 1].key,
                                           outcome |-> IF r.exc = "" THEN "returned" ELSE r.exc,
                                           props |-> r.props, data |-> r.data])
            /\ cached_procedures' = r.w.cache
            /\ fetches' = fetches \o r.w.fetched
            /\ props_list' = st.props_list
            /\ indexed_data' = st.indexed_data
            /\ log' = st.log
            /\ raised' = st.raised
            /\ pc' = IF st.raised # "" THEN "raised" ELSE "loop"
            /\ idx' = idx + 1
            /\ UNCHANGED <<hookVars, op, arg, result, experiments>>

\* after the loop: pd.DataFrame(props_list), one row per element, and return
SeparateReturn ==
    /\ pc = "loop" /\ idx = Len(experiments)
    /\ pc' = "done"
    /\ op' = "separate_nanolab_dataset"
    /\ result' = [consolidated_props |-> props_list, indexed_data |-> indexed_data]
    /\ UNCHANGED <<hookVars, arg, registryVars, experiments, idx, props_list, indexed_data,
                   log, invoked, raised>>

NextSeparate == SeparateIteration \/ SeparateReturn

SpecSeparate == InitSeparate /\ [][NextSeparate]_vars

-----------------------------------------------------------------------------
(* SpecRoundTrip: read_comment_lines applied to a file, and then to the     *)
(* file of the header it returned, written back one pair a line             *)

\* a header written back: the line "#<TAB>key: value" of each pair, in order
SerializeHeader(header) ==
    [i \in 1..Len(header) |-> ExtendedMarker \o header[i][1] \o KeyValueSep \o header[i][2]]

LineNested == <<"#", Tab, "k", ":", " ", "#", "#", Tab, Tab, "v">>
LineNestedKey == <<"#", Tab, "#", "#", Tab, Tab, "k", ":", " ", "v">>

RoundTripFiles ==
    HeaderFiles
    \cup {FileOf(ls) : ls \in SeqsUpTo({LineNested, LineNestedKey, LineFloat}, 2)}

InitRoundTrip ==
    /\ RegistryIdle /\ SeparateIdle /\ HookIdle
    /\ op = "" /\ result = <<>>
    /\ arg \in RoundTripFiles

\* the header that was read is written to a new file, which is read
WriteBackAndRead ==
    /\ op = "read_comment_lines" /\ result.exc = ""
    /\ \E written \in {FileOf(SerializeHeader(result.header))} :
        /\ op' = "read_written_back"
        /\ arg' = written
        /\ result' = [first |-> result.header, again |-> read_comment_lines(written)]
    /\ UNCHANGED <<hookVars, registryVars, separateVars>>

NextRoundTrip == ReadCommentLines \/ WriteBackAndRead

SpecRoundTrip == InitRoundTrip /\ [][NextRoundTrip]_vars

-----------------------------------------------------------------------------
(* SpecDataKey: get_data_key applied to one path *)

PathAlphabet == {"a", "b", "/", "."}

InitDataKey ==
    /\ RegistryIdle /\ SeparateIdle /\ HookIdle
    /\ op = "" /\ result = <<>>
    /\ arg \in SeqsUpTo(PathAlphabet, MaxPath)

GetDataKey ==
    /\ op = ""
    /\ op' = "get_data_key"
    /\ result' = get_data_key(arg)
    /\ UNCHANGED <<hookVars, arg, registryVars, separateVars>>

NextDataKey == GetDataKey

SpecDataKey == InitDataKey /\ [][NextDataKey]_vars

-----------------------------------------------------------------------------
(* DynamicDatasetHook.after_catalog_created.  A call runs from one external *)
(* call to the next: catalog.add, catalog.load, the producers called by     *)
(* separate_nanolab_dataset, catalog.save.  While a call waits in           *)
(* catalog.load or in a producer, the framework may create a catalog and    *)
(* call the hook again on the same object.                                  *)

ProjectPrefix == <<"p", "r", "o", "j", "e", "c", "t", "_">>
ProjectA == ProjectPrefix \o <<"a">>
ProjectB == ProjectPrefix \o <<"b">>

\* key.startswith("project_")
IsProject(key) == StartsWith(key, ProjectPrefix)

\* f"properties_{project}" and f"data_{project}"
PropertiesName(project) == <<"properties_">> \o project
DataName(project) == <<"data_">> \o project

\* what catalog.list() may return
CatalogListings ==
    {<<ProjectA>>, <<ProjectB, <<"x">>, ProjectA>>, <<<<"p", "r", "o", "j", "e", "c", "t">>>>}

\* outcomes of catalog.add; of catalog.load and catalog.save
AddOutcomes == {"ok", "DatasetAlreadyExistsError"}
CallOutcomes == {"ok", "DatasetError", "KeyboardInterrupt"}

\* what catalog.load(project) may return: mappings of keys to producers
HookDatasets ==
    {<<[key |-> 1, producer |-> StubProducer("pair")],
       [key |-> 2, producer |-> StubProducer("ValueError")]>>,
     <<[key |-> 1, producer |-> StubProducer("KeyboardInterrupt")]>>}

\* separate_nanolab_dataset as one call: the loop body over the entries in
\* order, left at the first exception that the handler does not catch
separate_nanolab_dataset(mapping) ==
    LET upTo[n \in 0..Len(mapping)] ==
            IF n = 0
            THEN [props_list |-> <<>>, indexed_data |-> <<>>, log |-> <<>>, raised |-> ""]
            ELSE Only({IF st.raised # "" THEN st
                       ELSE SeparateBody(st, mapping[n].key,
                                         CallProducer(mapping[n].producer, World(None, <<>>))) :
                       st \in {upTo[n - 1]}})
    IN  upTo[Len(mapping)]

\* the calls of after_catalog_created during which a catalog may be created
\* and the hook called again: catalog.load ("This might trigger catalog
\* hooks") and the producers called by separate_nanolab_dataset, which load
\* the registry through a new session (load_catalog_item)
ReentryPoints == {"load", "separate"}

Top(frames) == frames[Len(frames)]
Pop(frames) == SubSeq(frames, 1, Len(frames) - 1)
SetTop(frames, frame) == [frames EXCEPT ![Len(frames)] = frame]

Event(frame, kind, name) == [inv |-> frame.id, kind |-> kind, name |-> name]

\* the hook's part of the state, as the steps of a call transform it
HookState == [stack |-> stack, is_processing |-> is_processing, events |-> events]

\* the finally clause and the end of the call: exc is the exception that
\* leaves the call, "" when it returns
Finally(st, exc) ==
    [st EXCEPT !.is_processing = FALSE,
               !.stack = Pop(@),
               !.events = Append(@, Event(Top(st.stack), IF exc = "" THEN "return" ELSE "propagate", exc))]

\* an exception raised in the try block, with a handler that logs the error
\* and goes on with the next project
RaisedInTryContinue(st, exc) ==
    LET f == Top(st.stack)
        logged == [st EXCEPT !.events = Append(@, Event(f, "error", exc))]
    IN  IF ~Caught(exc) THEN Finally(st, exc)
        ELSE IF f.i < Len(f.list)
        THEN [logged EXCEPT !.stack = SetTop(@, [f EXCEPT !.i = @ + 1, !.pc = "load"])]
        ELSE Finally(logged, "")

\* an exception raised in the try block: "except Exception" logs it and the
\* call returns after the finally clause; any other exception leaves the
\* call after the finally clause
RaisedInTry(st, exc) ==
    IF Caught(exc)
    THEN Finally([st EXCEPT !.events = Append(@, Event(Top(st.stack), "error", exc))], "")
    ELSE Finally(st, exc)

\* the code after the registration loop with no test of is_processing
GuardAbsent(st) ==
    LET f == Top(st.stack)
    IN  IF f.list = <<>>
        THEN Finally([st EXCEPT !.is_processing = TRUE], "")
        ELSE [st EXCEPT !.is_processing = TRUE,
                        !.stack = SetTop(@, [f EXCEPT !.pc = "load", !.i = 1])]

\* the code after the registration loop: the test of is_processing, the
\* assignment of the flag and the start of the processing loop
Guard(st) ==
    LET f == Top(st.stack)
    IN  IF st.is_processing
        THEN [st EXCEPT !.stack = Pop(@),
                        !.events = @ \o <<Event(f, "skip", <<>>), Event(f, "return", "")>>]
        ELSE IF f.list = <<>>
        THEN Finally([st EXCEPT !.is_processing = TRUE], "")
        ELSE [st EXCEPT !.is_processing = TRUE,
                        !.stack = SetTop(@, [f EXCEPT !.pc = "load", !.i = 1])]

\* a step of the hook leaves the hook's variables as st says
HookBecomes(st) ==
    /\ stack' = st.stack
    /\ is_processing' = st.is_processing
    /\ events' = st.events

othersVars == <<registryVars, separateVars, op, arg, result>>

InitHook == RegistryIdle /\ SeparateIdle /\ CallIdle /\ HookIdle

\* after_catalog_created is called, at first or from inside an external
\* call of a running call: self.projects is set from catalog.list(); with
\* no project the registration loop is empty and the guard follows
AfterCatalogCreated ==
    /\ invocations < MaxInvocations
    /\ stack # <<>> => Top(stack).pc \in ReentryPoints
    /\ \E listing \in CatalogListings :
        \E frame \in {[id |-> invocations + 1, list |-> SelectSeq(listing, IsProject),
                       pc |-> "add_properties", i |-> 1, dataset |-> <<>>,
                       consolidated_props |-> <<>>, indexed_data |-> <<>>]} :
        \E entered \in {[HookState EXCEPT
                            !.stack = Append(@, frame),
                            !.events = Append(@, [inv |-> frame.id, kind |-> "invoke",
                                                  name |-> frame.list,
                                                  depth |-> Len(stack) + 1,
                                                  flag |-> is_processing])]} :
            /\ projects' = frame.list
            /\ invocations' = invocations + 1
            /\ HookBecomes(IF frame.list = <<>> THEN Guard(entered) ELSE entered)
    /\ UNCHANGED othersVars

\* catalog.add returns or raises, for the properties or the data of the
\* project; after the last project's the guard follows
CatalogAdd ==
    /\ stack # <<>> /\ Top(stack).pc \in {"add_properties", "add_data"}
    /\ \E outcome \in AddOutcomes :
        LET f == Top(stack)
            project == f.list[f.i]
            name == IF f.pc = "add_properties" THEN PropertiesName(project)
                    ELSE DataName(project)
            added == [HookState EXCEPT !.events = Append(@, Event(f, "add", name))]
        IN  HookBecomes(
                IF outcome # "ok"
                THEN [HookState EXCEPT !.stack = Pop(@),
                                       !.events = Append(@, Event(f, "propagate", outcome))]
                ELSE IF f.pc = "add_properties"
                THEN [added EXCEPT !.stack = SetTop(@, [f EXCEPT !.pc = "add_data"])]
                ELSE IF f.i < Len(f.list)
                THEN [added EXCEPT !.stack = SetTop(@, [f EXCEPT !.pc = "add_properties",
                                                                 !.i = @ + 1])]
                ELSE Guard(added))
    /\ UNCHANGED <<projects, invocations, othersVars>>

\* catalog.load(project) returns a dataset or raises
CatalogLoad ==
    /\ stack # <<>> /\ Top(stack).pc = "load"
    /\ \E outcome \in CallOutcomes, dataset \in HookDatasets :
        LET f == Top(stack)
        IN  HookBecomes(
                IF outcome # "ok" THEN RaisedInTry(HookState, outcome)
                ELSE [HookState EXCEPT
                         !.events = Append(@, Event(f, "load", f.list[f.i])),
                         !.stack = SetTop(@, [f EXCEPT !.pc = "separate",
                                                       !.dataset = dataset])])
    /\ UNCHANGED <<projects, invocations, othersVars>>

\* separate_nanolab_dataset(dataset) returns, or an exception leaves it
Separate ==
    /\ stack # <<>> /\ Top(stack).pc = "separate"
    /\ \E r \in {separate_nanolab_dataset(Top(stack).dataset)} :
        LET f == Top(stack)
        IN  HookBecomes(
                IF r.raised # "" THEN RaisedInTry(HookState, r.raised)
                ELSE [HookState EXCEPT
                         !.events = Append(@, Event(f, "separate", f.list[f.i])),
                         !.stack = SetTop(@, [f EXCEPT !.pc = "save_properties",
                                                       !.consolidated_props = r.props_list,
                                                       !.indexed_data = r.indexed_data])])
    /\ UNCHANGED <<projects, invocations, othersVars>>

\* catalog.save of the properties, then of the data; after the data of the
\* last project the try block ends
CatalogSave ==
    /\ stack # <<>> /\ Top(stack).pc \in {"save_properties", "save_data"}
    /\ \E outcome \in CallOutcomes :
        LET f == Top(stack)
            project == f.list[f.i]
            name == IF f.pc = "save_properties" THEN PropertiesName(project)
                    ELSE DataName(project)
            saved == [HookState EXCEPT !.events = Append(@, Event(f, "save", name))]
        IN  HookBecomes(
                IF outcome # "ok" THEN RaisedInTry(HookState, outcome)
                ELSE IF f.pc = "save_properties"
                THEN [saved EXCEPT !.stack = SetTop(@, [f EXCEPT !.pc = "save_data"])]
                ELSE IF f.i < Len(f.list)
                THEN [saved EXCEPT !.stack = SetTop(@, [f EXCEPT !.pc = "load", !.i = @ + 1])]
                ELSE Finally(saved, ""))
    /\ UNCHANGED <<projects, invocations, othersVars>>

NextHook == AfterCatalogCreated \/ CatalogAdd \/ CatalogLoad \/ Separate \/ CatalogSave

SpecHook == InitHook /\ [][NextHook]_vars

-----------------------------------------------------------------------------
(* Claims about separate_nanolab_dataset *)

Returned(e) == e.outcome = "returned"

\* the producer raised an error: an exception of a class under Exception
RaisedError(e) == e.outcome \notin ({"returned"} \cup NonExceptionClasses)

RaisedLoadError(e) == e.outcome = "LoadError"

LoadRaised(outcome) == outcome = "raise"

InputKeys == {experiments[i].key : i \in 1..Len(experiments)}

\* C1: separate returns a table-map whose keys are exactly the keys of the
\* entries whose producer returned, each with that producer's table: a
\* subset of the input keys, all of them when nothing failed; the properties
\* hold one row per such entry, in the order the entries were processed, so
\* there are as many rows as table-map keys.
C1_OneRowAndOneTablePerSuccess ==
    pc = "done" =>
        LET ok == SelectSeq(invoked, Returned)
            keys == DictKeys(result.indexed_data)
        IN  /\ keys = {ok[i].key : i \in 1..Len(ok)}
            /\ \A i \in 1..Len(ok) : DictGet(result.indexed_data, ok[i].key) = ok[i].data
            /\ keys \subseteq InputKeys
            /\ Len(ok) = Len(experiments) => keys = InputKeys
            /\ result.consolidated_props = [i \in 1..Len(ok) |-> ok[i].props]
            /\ Len(result.consolidated_props) = Cardinality(keys)

\* C1 witness: of three entries the second failed; the result has the two
\* rows of the first and third, which differ, and their two keys
C1_Witness ==
    /\ pc = "done" /\ Len(experiments) = 3
    /\ Returned(invoked[1]) /\ RaisedError(invoked[2]) /\ Returned(invoked[3])
    /\ invoked[1].props # invoked[3].props
    /\ Len(result.consolidated_props) = 2
    /\ DictKeys(result.indexed_data) = {experiments[1].key, experiments[3].key}
    /\ Len(log) = 1

\* C2: separate never raises an error of an entry's producer: each such
\* error is caught and logged with the entry's key, in order, and the loop
\* goes on, so that the producers are invoked once each in the insertion
\* order of the mapping, all of them when separate returns.  Only an
\* exception that is not under Exception (KeyboardInterrupt) leaves separate.
C2_EntryErrorsAreLoggedNotRaised ==
    LET failed == SelectSeq(invoked, RaisedError)
    IN  /\ raised \in ({""} \cup NonExceptionClasses)
        /\ pc = "raised" <=> raised # ""
        /\ log = [i \in 1..Len(failed) |-> [key |-> failed[i].key, exc |-> failed[i].outcome]]
        /\ Len(invoked) = idx /\ idx <= Len(experiments)
        /\ \A i \in 1..Len(invoked) : invoked[i].key = experiments[i].key
        /\ \A i \in 1..(Len(invoked) - 1) : invoked[i].outcome \notin NonExceptionClasses
        /\ pc = "done" => Len(invoked) = Len(experiments)

\* C2 witness: the first of three entries raised an error, which was logged
\* with its key, and both later entries were invoked; separate returned
C2_Witness ==
    /\ pc = "done" /\ Len(experiments) = 3 /\ Len(invoked) = 3
    /\ invoked[1].outcome = "KeyError" /\ Returned(invoked[3])
    /\ log[1] = [key |-> experiments[1].key, exc |-> "KeyError"]
    /\ raised = ""

\* C3 as stated: a registry load that fails while a batch is separated
\* leaves separate as an exception and is not logged as an entry's failure.
C3_LoadFailureLeavesSeparate ==
    \A i \in 1..Len(invoked) :
        RaisedLoadError(invoked[i]) =>
            /\ raised = "LoadError" /\ pc = "raised"
            /\ \A j \in 1..Len(log) : log[j].exc # "LoadError"

\* C3 (amended): a registry load that fails is not handled by get_procedures
\* or _load, so each failed load makes the producer that asked for it raise
\* that failure; separate catches it like any failure of an entry: logs it
\* with the entry's key, leaves the entry out of the result, goes on with the
\* next entry, whose producer loads the registry again, and returns.
C3_LoadFailureIsAnEntryFailure ==
    /\ Len(SelectSeq(fetches, LoadRaised)) = Len(SelectSeq(invoked, RaisedLoadError))
    /\ \A i \in 1..Len(invoked) :
        RaisedLoadError(invoked[i]) =>
            /\ \E j \in 1..Len(log) : log[j] = [key |-> invoked[i].key, exc |-> "LoadError"]
            /\ invoked[i].key \notin DictKeys(indexed_data)
    /\ raised # "LoadError"
    /\ pc = "raised" => raised \in NonExceptionClasses
    /\ pc = "done" =>
          /\ Len(invoked) = Len(experiments)
          /\ \A i \in 1..Len(invoked) :
                RaisedLoadError(invoked[i]) =>
                    invoked[i].key \notin DictKeys(result.indexed_data)

\* C3 witness: the first entry's load failed and was logged; the second
\* entry loaded the registry and is in the result that separate returned
C3_Witness ==
    /\ pc = "done" /\ Len(invoked) = 2
    /\ RaisedLoadError(invoked[1]) /\ Returned(invoked[2])
    /\ fetches = <<"raise", "ok">>
    /\ log = <<[key |-> experiments[1].key, exc |-> "LoadError"]>>
    /\ DictKeys(result.indexed_data) = {experiments[2].key}

-----------------------------------------------------------------------------
(* Claims about determine_procedure, read_comment_lines and parse_metadata *)

\* the line holds a "<" and, somewhere after it, a ">"
HasBracketed(line) ==
    \E i, j \in 1..Len(line) : i < j /\ line[i] = "<" /\ line[j] = ">"

\* the text after the last "." of t (all of t when it holds none)
AfterLastDot(t) ==
    LET dots == {i \in 1..Len(t) : t[i] = "."}
    IN  IF dots = {} THEN t ELSE SubSeq(t, Max(dots) + 1, Len(t))

\* the stripped first line of a file, empty for an empty file
StrippedFirstLine(file) == IF file.lines = <<>> THEN <<>> ELSE Strip(file.lines[1])

\* C7: determine_procedure fails with the invalid-format error, without
\* opening the file, for a path that does not end in .csv; for a .csv file
\* it looks at the first line only: when that line holds text between "<"
\* and ">" it returns what follows the last "." of the first such text, and
\* otherwise it returns the empty string; it warns exactly when there is no
\* such text, and raises nothing.
C7_ExtractProcedureId ==
    op = "determine_procedure" =>
        LET line == StrippedFirstLine(arg.file)
        IN  IF ~EndsWith(arg.path, CsvSuffix)
            THEN result.exc = "ValueError" /\ ~result.opened /\ ~result.warned
            ELSE IF ~arg.file.exists THEN result.exc = "FileNotFoundError"
            ELSE /\ result.exc = ""
                 /\ result.warned <=> ~HasBracketed(line)
                 /\ ~HasBracketed(line) => result.value = <<>>
                 /\ HasBracketed(line) =>
                       \E i, j \in 1..Len(line) :
                           /\ i < j /\ line[i] = "<" /\ line[j] = ">"
                           /\ \A h \in 1..(i - 1) : line[h] # "<"
                           /\ \A h \in (i + 1)..(j - 1) : line[h] # ">"
                           /\ result.value = AfterLastDot(SubSeq(line, i + 1, j - 1))

\* C7 witness: a .csv file whose first line holds a dotted bracketed text
\* and whose second line holds another marker; the id comes from the first
C7_Witness ==
    /\ op = "determine_procedure"
    /\ arg.path = PathCsv
    /\ arg.file.lines = << <<"<", "a", ".", "a", ">">>, LineMarkerQ >>
    /\ result.value = <<"a">> /\ ~result.warned /\ result.exc = ""

\* the lines of a file whose stripped form starts with the marker m
MarkedLines(file, m) == {i \in 1..Len(file.lines) : StartsWith(Strip(file.lines[i]), m)}

\* C8: whenever read_comment_lines returns, its offset is the number of
\* lines whose stripped form starts with "#", whether or not one of them
\* starts with "#<TAB>"; with no such line it returns ({}, 0).
C8_OffsetCountsCommentLines ==
    (op = "read_comment_lines" /\ result.exc = "") =>
        /\ result.offset = Cardinality(MarkedLines(arg, CommentMarker))
        /\ MarkedLines(arg, CommentMarker) = {} => result.header = <<>>

\* a "#<TAB>" line without its leading marker
AfterMarker(file, i) ==
    SubSeq(Strip(file.lines[i]), Len(ExtendedMarker) + 1, Len(Strip(file.lines[i])))

\* the key and the value the claim gives line i: around the first ": "
ClaimedKey(file, i) ==
    SubSeq(AfterMarker(file, i), 1, Find(AfterMarker(file, i), KeyValueSep) - 1)
ClaimedValue(file, i) ==
    SubSeq(AfterMarker(file, i), Find(AfterMarker(file, i), KeyValueSep) + Len(KeyValueSep),
           Len(AfterMarker(file, i)))

\* C9: read_comment_lines takes a pair from exactly the lines whose stripped
\* form starts with "#<TAB>": the key is the text between the marker and
\* the first ": ", the value all the text after it, unchanged (the last
\* line of a key gives its value); when one of these lines holds no ": "
\* the call fails with the malformed-header error.
C9_HeaderPairs ==
    (op = "read_comment_lines" /\ arg.exists) =>
        LET ext == MarkedLines(arg, ExtendedMarker)
            malformed == \E i \in ext : Find(AfterMarker(arg, i), KeyValueSep) = 0
        IN  IF malformed THEN result.exc = "ValueError"
            ELSE /\ result.exc = ""
                 /\ DictKeys(result.header) = {ClaimedKey(arg, i) : i \in ext}
                 /\ \A i \in ext :
                       (\A j \in ext : j > i => ClaimedKey(arg, j) # ClaimedKey(arg, i))
                       => DictGet(result.header, ClaimedKey(arg, i)) = ClaimedValue(arg, i)

\* the first whitespace-delimited token of a value: value.split()[0]
FirstToken(value) ==
    LET keep == {i \in 1..Len(value) : value[i] \notin Whitespace}
    IN  IF keep = {} THEN <<>>
        ELSE LET a == Min(keep)
                 b == Min({j \in a..Len(value) : j = Len(value) \/ value[j + 1] \in Whitespace})
             IN  SubSeq(value, a, b)

\* C10: with tag "float", parse_metadata gives the number the first
\* whitespace-delimited token of the raw value denotes, whenever that token
\* is a number, whatever whitespace separates or precedes it; with tag
\* "float_no_unit" it parses the whole raw value.
C10_FloatFirstToken ==
    op = "parse_metadata" =>
        /\ (arg.how = "float" /\ PyFloat(FirstToken(arg.value)).exc = "")
              => result = PyFloat(FirstToken(arg.value))
        /\ arg.how = "float_no_unit" => result = PyFloat(arg.value)

-----------------------------------------------------------------------------
(* Claims about the registry cache and make_props_data *)

\* C4 as stated: load_catalog_item is called at most once in a process.
C4_FetchedAtMostOnce == Len(fetches) <= 1

\* C4 (amended): once an access has stored a registry, no later access
\* calls load_catalog_item and the cached registry is never replaced; only
\* the last load_catalog_item call can be one that returned a registry.  A
\* load that raised or returned None leaves the cache empty, and the next
\* access fetches again.
C4_LoadedRegistryIsKept ==
    /\ [](\A i \in 1..Len(fetches) : fetches[i] = "ok" => i = Len(fetches))
    /\ [](cached_procedures.none <=> (fetches = <<>> \/ Last(fetches) # "ok"))
    /\ [][~cached_procedures.none
            => (cached_procedures' = cached_procedures /\ fetches' = fetches)]_vars

\* C4 witness: make_props_data returned after an earlier load had raised;
\* its accesses after the one successful load were served from the cache
C4_Witness ==
    /\ op = "make_props_data" /\ result.stage = "return"
    /\ fetches = <<"raise", "ok">>
    /\ cached_procedures = Some(Procedures)

\* the key set of a procedure's schema: Parameters keys and Metadata keys
SchemaKeys(procedure) ==
    LET p == DictGet(Procedures, procedure)
    IN  DictKeys(p.Parameters) \cup DictKeys(p.Metadata)

\* the stages of make_props_data that follow the resolution of the schema
ResolvedStages == {"validate", "parse_metadata", "get_data_key", "read_csv", "return"}

\* C5: once the schema is resolved, a header key that is not a schema key
\* makes make_props_data fail with the key-validation error naming such a
\* key and the procedure; when every header key is a schema key the
\* validation passes, also with schema keys missing from the header, and
\* the properties returned hold the header keys and the two derived fields.
C5_ValidatesHeaderKeys ==
    (op = "make_props_data" /\ result.stage \in ResolvedStages) =>
        LET header == DictKeys(read_comment_lines(arg.file).header)
            unknown == header \ SchemaKeys(result.procedure)
        IN  IF unknown # {}
            THEN /\ result.exc = "KeyError" /\ result.stage = "validate"
                 /\ result.key \in unknown
                 /\ result.procedure = determine_procedure(arg.path, arg.file).value
            ELSE /\ result.stage # "validate"
                 /\ result.stage = "return" =>
                       DictKeys(result.props) = header \cup {DataKeyField, ProcedureTypeField}

\* every "#<TAB>" line of the file holds a ": "
WellFormedHeader(file) ==
    \A i \in MarkedLines(file, ExtendedMarker) : Find(AfterMarker(file, i), KeyValueSep) # 0

\* C6: for a .csv file whose first line holds no <...> marker and whose
\* header is well-formed, make_props_data never returns: the procedure id
\* is empty, with a warning and no exception, and the call fails where the
\* schema is resolved, with the unknown-procedure KeyError whenever the
\* registry is there to look the id up in, before any header value is
\* coerced and before the body is read.
C6_NoMarkerIsUnknownProcedure ==
    (/\ op = "make_props_data" /\ EndsWith(arg.path, CsvSuffix) /\ arg.file.exists
     /\ ~HasBracketed(StrippedFirstLine(arg.file)) /\ WellFormedHeader(arg.file)) =>
        /\ result.exc # "" /\ result.warned /\ result.procedure = <<>>
        /\ result.coerced = 0 /\ ~result.body_read
        /\ result.stage \in {"get_procedures", "get_keys"}
        /\ ~cached_procedures.none => (result.exc = "KeyError" /\ result.stage = "get_keys")

\* C6 witness: a .csv file without marker and with a well-formed header line
\* fails in get_keys with the KeyError for the empty id
C6_Witness ==
    /\ op = "make_props_data" /\ arg.path = PathCsv
    /\ arg.file.lines = <<LineNoMarker, LineFloat, LineColumns, LineRow>>
    /\ result.exc = "KeyError" /\ result.stage = "get_keys" /\ result.procedure = <<>>
    /\ result.warned /\ result.coerced = 0

-----------------------------------------------------------------------------
(* Claims about the header round trip and get_data_key *)

\* C11: a header that read_comment_lines returned, written back as one line
\* "#<TAB>key: value" per pair and read again, is read without error as the
\* same header: the same keys with the same values, each value one string.
C11_HeaderRoundTrip ==
    op = "read_written_back" =>
        /\ result.again.exc = ""
        /\ Elems(result.again.header) = Elems(result.first)
        /\ Len(result.again.header) = Len(result.first)

\* the name without its extension: the text before the last "." that has a
\* character other than "." before it, the whole name when there is none
Stem(name) ==
    LET dots == {i \in 2..Len(name) : name[i] = "." /\ \E j \in 1..(i - 1) : name[j] # "."}
    IN  IF dots = {} THEN name ELSE SubSeq(name, 1, Max(dots) - 1)

\* C12: for a path of two or more "/"-separated segments get_data_key
\* returns the one before last, the separator and the stem of the last, so
\* the key is a function of the last two segments; for a path of fewer
\* segments it raises.
C12_DataKeyOfLastTwoSegments ==
    op = "get_data_key" =>
        LET segments == Split(arg, <<"/">>)
        IN  IF Len(segments) < 2
            THEN result.exc # ""
            ELSE /\ result.exc = ""
                 /\ result.value = segments[Len(segments) - 1] \o <<"/">>
                                        \o Stem(Last(segments))

-----------------------------------------------------------------------------
(* Claims about DynamicDatasetHook.after_catalog_created *)

\* the call is in its processing loop
InLoop(frame) == frame.pc \in {"load", "separate", "save_properties", "save_data"}

ProcessingKinds == {"load", "separate", "save"}

\* the event that records the start of call id
Invoked(id) == CHOOSE e \in Elems(events) : e.kind = "invoke" /\ e.inv = id

\* what call id did of the given kinds, in order, as kind and name
EventsOf(id, kinds) ==
    LET of(e) == e.inv = id /\ e.kind \in kinds
        sel == SelectSeq(events, of)
    IN  [n \in 1..Len(sel) |-> [kind |-> sel[n].kind, name |-> sel[n].name]]

\* C13: the hook is in state Processing (is_processing set) exactly while
\* one call is in its processing loop, and in state Idle otherwise, so also
\* whenever no call is running; a call that started in state Processing
\* loads, separates and saves nothing and is the only kind of call that is
\* skipped, and it leaves the flag set for the call in the loop; a call that
\* is not nested in another never finds the flag set.
C13_ReentrancyGuard ==
    LET looping == {k \in 1..Len(stack) : InLoop(stack[k])}
    IN  /\ is_processing <=> looping # {}
        /\ Cardinality(looping) <= 1
        /\ stack = <<>> => ~is_processing
        /\ \A n \in 1..Len(events) :
            LET e == events[n]
            IN  /\ e.kind \in ProcessingKinds \cup {"error"} => ~Invoked(e.inv).flag
                /\ e.kind = "skip" => Invoked(e.inv).flag /\ Invoked(e.inv).depth > 1
                /\ (e.kind = "invoke" /\ e.depth = 1) => ~e.flag
        /\ \A k \in 1..Len(stack) :
            Invoked(stack[k].id).flag =>
                /\ is_processing /\ ~InLoop(stack[k])
                /\ \E j \in 1..(k - 1) : InLoop(stack[j])

\* C13 witness: call 2 started inside the loop of call 1 and was skipped;
\* call 1 then saved and returned, and the hook is idle
C13_Witness ==
    /\ stack = <<>> /\ ~is_processing
    /\ \E i, j \in 1..Len(events) :
        /\ i < j
        /\ events[i].kind = "skip" /\ events[i].inv = 2
        /\ events[j].kind = "save" /\ events[j].inv = 1
    /\ Last(events) = [inv |-> 1, kind |-> "return", name |-> ""]

\* what a call with the project list does when nothing raises
ExpectedProcessing(list) ==
    [n \in 1..(4 * Len(list)) |->
        LET project == list[((n - 1) \div 4) + 1]
            step == (n - 1) % 4
        IN  IF step = 0 THEN [kind |-> "load", name |-> project]
            ELSE IF step = 1 THEN [kind |-> "separate", name |-> project]
            ELSE IF step = 2 THEN [kind |-> "save", name |-> PropertiesName(project)]
            ELSE [kind |-> "save", name |-> DataName(project)]]

IsPrefix(s, t) == Len(s) <= Len(t) /\ s = SubSeq(t, 1, Len(s))

\* C14: in every call, the properties and data datasets of every project
\* are registered before anything is loaded; the projects are loaded,
\* separated and saved one after another in list order; an error raised by
\* a load, separate or save is logged and does not leave the call, and after
\* it the call loads, separates and saves nothing more.
C14_RegisterThenProcessInOrder ==
    \A id \in 1..invocations :
        LET list == Invoked(id).name
            done == EventsOf(id, ProcessingKinds)
            added == EventsOf(id, {"add"})
            adds == {m \in 1..Len(events) : events[m].inv = id /\ events[m].kind = "add"}
            dones == {n \in 1..Len(events) :
                         events[n].inv = id /\ events[n].kind \in ProcessingKinds}
        IN  /\ done # <<>> =>
                added = [n \in 1..(2 * Len(list)) |->
                            [kind |-> "add",
                             name |-> IF n % 2 = 1 THEN PropertiesName(list[(n + 1) \div 2])
                                      ELSE DataName(list[n \div 2])]]
            /\ \A m \in adds, n \in dones : m < n
            /\ IsPrefix(done, ExpectedProcessing(list))
            /\ \A m \in 1..Len(events) :
                (events[m].inv = id /\ events[m].kind = "error") =>
                    /\ events[m].name \notin NonExceptionClasses
                    /\ \A n \in (m + 1)..Len(events) :
                        events[n].inv = id =>
                            (events[n].kind = "return" /\ events[n].name = "")
                    /\ \E n \in (m + 1)..Len(events) : events[n].inv = id
            /\ \A m \in 1..Len(events) :
                (events[m].inv = id /\ events[m].kind = "propagate" /\ done # <<>>) =>
                    events[m].name \in NonExceptionClasses

\* C14 witness: the first of two projects was saved, the load of the second
\* raised an error, which was logged, and the call returned
C14_Witness ==
    /\ stack = <<>> /\ invocations = 1
    /\ Invoked(1).name = <<ProjectB, ProjectA>>
    /\ EventsOf(1, ProcessingKinds) = SubSeq(ExpectedProcessing(<<ProjectB, ProjectA>>), 1, 4)
    /\ \E m \in 1..Len(events) : events[m].kind = "error" /\ events[m].name = "DatasetError"
    /\ Last(events) = [inv |-> 1, kind |-> "return", name |-> ""]

=============================================================================
